---------------------------- MODULE Spec2Model ----------------------------
(***************************************************************************)
(* Model of the multi-vehicle traffic simulation kernel                    *)
(* (Backend/vehicle.py, Backend/multi_vehicle_simulator.py).               *)
(*                                                                         *)
(* Numbers are fixed point:                                                *)
(*   time        1 unit = 0.1 s                                            *)
(*   speed       1 unit = 0.05 px/s                                        *)
(*   distance    1 unit = 0.005 px   (speed unit * time unit)              *)
(*   position    fraction of the edge, 1.0 = EdgeEnd                       *)
(*   multiplier  1.0 = DEFAULT_TRAFFIC_MULTIPLIER                          *)
(*   coordinate  1 unit = 0.01                                             *)
(* A division that is not exact rounds down.                               *)
(***************************************************************************)
EXTENDS Integers, Sequences, FiniteSets, TLC

None == "None"

Min(a, b) == IF a <= b THEN a ELSE b
Max(a, b) == IF a >= b THEN a ELSE b
Abs(a) == IF a >= 0 THEN a ELSE 0 - a
Range(s) == {s[i] : i \in 1..Len(s)}

RECURSIVE SortedSeq(_)
\* The elements of a finite set of integers, ascending.
SortedSeq(S) ==
    IF S = {} THEN <<>>
    ELSE LET m == CHOOSE x \in S : \A y \in S : x <= y
         IN  <<m>> \o SortedSeq(S \ {m})

RECURSIVE ISqrt(_, _, _)
\* The integer square root of n, by bisection on lo..hi (lo * lo <= n < hi * hi).
ISqrt(n, lo, hi) ==
    IF hi - lo <= 1 THEN lo
    ELSE LET mid == (lo + hi) \div 2
         IN  IF mid * mid <= n THEN ISqrt(n, mid, hi) ELSE ISqrt(n, lo, mid)

(***************************************************************************)
(* Program constants.                                                      *)
(***************************************************************************)
DEFAULT_TRAFFIC_MULTIPLIER == 1000
BLOCKED_MULTIPLIER == 100000
HOTSPOT_CEILING == 5000
SPEED_CAR == 600
SPEED_BIKE == 400
SPEED_PEDESTRIAN == 200
ACCELERATION == 3
MAX_DELTA_TIME == 2
EdgeEnd == 20000
SCALE == 220
MIN_EDGE_LENGTH == 10000
DEFAULT_EDGE_LENGTH == 20000
MIN_DISTANCE == 6000

VehicleTypes == {"car", "bicycle", "pedestrian"}

SPEED_MULTIPLIERS ==
    [t \in VehicleTypes |->
        CASE t = "car" -> SPEED_CAR
          [] t = "bicycle" -> SPEED_BIKE
          [] OTHER -> SPEED_PEDESTRIAN]

severity_multipliers == [minor |-> 2, moderate |-> 4, severe |-> 10]
Severities == {"minor", "moderate", "severe"}

(***************************************************************************)
(* Bounds of the model.                                                    *)
(***************************************************************************)
MaxVehicles == 2
MaxAccidents == 1
MaxCommands == 2
MaxStep == 2
MaxRunStep == 46
MaxDuration == 3
MaxLineStep == 215
MaxDriftStep == 61
MaxCruiseStep == 200
MaxLiveStep == 50

(***************************************************************************)
(* The road network (the kernel's input).  A graph is an ordered sequence  *)
(* of node ids, for each node the ordered sequence of its outgoing edges   *)
(* (target, per-mode base cost), and the coordinates of the nodes that     *)
(* have any.                                                               *)
(***************************************************************************)
SameCost(c) == [t \in VehicleTypes |-> c]

\* A->B->D (cost 1 each) plus A->C->D (cost 2 each); every edge is shorter
\* than 50 px and so has the minimum length.
DetourGraph ==
    [nodes  |-> <<"A", "B", "C", "D">>,
     adj    |-> [A |-> << [to |-> "B", cost |-> SameCost(1)],
                          [to |-> "C", cost |-> SameCost(2)] >>,
                 B |-> << [to |-> "D", cost |-> SameCost(1)] >>,
                 C |-> << [to |-> "D", cost |-> SameCost(2)] >>,
                 D |-> << >>],
     coords |-> [A |-> <<0, 0>>, B |-> <<30, 20>>,
                 C |-> <<30, -20>>, D |-> <<60, 0>>]]

Graphs == {DetourGraph}

\* A graph without nodes, and a graph of one node without edges.
EmptyGraph == [nodes |-> <<>>, adj |-> <<>>, coords |-> <<>>]
LoneGraph == [nodes |-> <<"A">>, adj |-> [A |-> <<>>], coords |-> [A |-> <<0, 0>>]]
SpawnGraphs == {DetourGraph, EmptyGraph, LoneGraph}

\* A->B->C->D, cost 1 each, the nodes on a line at distance 1 (110 px).
LineGraph ==
    [nodes  |-> <<"A", "B", "C", "D">>,
     adj    |-> [A |-> << [to |-> "B", cost |-> SameCost(1)] >>,
                 B |-> << [to |-> "C", cost |-> SameCost(1)] >>,
                 C |-> << [to |-> "D", cost |-> SameCost(1)] >>,
                 D |-> << >>],
     coords |-> [A |-> <<0, 0>>, B |-> <<100, 0>>, C |-> <<200, 0>>, D |-> <<300, 0>>]]

NodesOf(G) == Range(G.nodes)
OutEdges(G, n) == {<<n, G.adj[n][i].to>> : i \in 1..Len(G.adj[n])}
EdgesOf(G) == UNION {OutEdges(G, n) : n \in NodesOf(G)}
BaseCost(G, e, mode) ==
    LET i == CHOOSE j \in 1..Len(G.adj[e[1]]) : G.adj[e[1]][j].to = e[2]
    IN  G.adj[e[1]][i].cost[mode]
NodeRank(G, n) == CHOOSE i \in 1..Len(G.nodes) : G.nodes[i] = n

\* _calculate_edge_lengths: the cache holds an edge only when both its ends
\* have coordinates; its length is max(euclidean * 110, 50 px).
CalculateEdgeLengths(G) ==
    LET known == {e \in EdgesOf(G) : e[1] \in DOMAIN G.coords /\ e[2] \in DOMAIN G.coords}
        dist(e) ==
            LET dx == G.coords[e[2]][1] - G.coords[e[1]][1]
                dy == G.coords[e[2]][2] - G.coords[e[1]][2]
            IN  ISqrt((dx * dx + dy * dy) * SCALE * SCALE, 0, 46340)
    IN  [e \in known |-> Max(dist(e), MIN_EDGE_LENGTH)]

\* self.edge_lengths.get(edge, 100.0)
EdgeLength(lengths, e) == IF e \in DOMAIN lengths THEN lengths[e] ELSE DEFAULT_EDGE_LENGTH

\* _initialize_traffic_multipliers: every edge of the graph gets the default.
InitializeTrafficMultipliers(G, mult) ==
    [e \in (DOMAIN mult) \cup EdgesOf(G) |->
        IF e \in EdgesOf(G) THEN DEFAULT_TRAFFIC_MULTIPLIER ELSE mult[e]]

\* _identify_congestion_hotspots: the nodes are sorted by out-degree,
\* descending (a stable sort); the first max(1, n // 5) are the hotspot nodes.
RECURSIVE SortByDegree(_, _)
SortByDegree(G, left) ==
    IF left = {} THEN <<>>
    ELSE LET n == CHOOSE x \in left :
                    \A y \in left :
                        \/ Len(G.adj[x]) > Len(G.adj[y])
                        \/ Len(G.adj[x]) = Len(G.adj[y]) /\ NodeRank(G, x) <= NodeRank(G, y)
         IN  <<n>> \o SortByDegree(G, left \ {n})

HotspotNodes(G) ==
    LET sorted_nodes == SortByDegree(G, NodesOf(G))
        hotspot_count == Max(1, Len(sorted_nodes) \div 5)
    IN  {sorted_nodes[i] : i \in 1..Min(hotspot_count, Len(sorted_nodes))}

\* Each outgoing edge of a hotspot node is kept by an independent draw
\* (random.random() < 0.3): any subset can result.
HotspotChoices(G) == SUBSET (UNION {OutEdges(G, n) : n \in HotspotNodes(G)})

(***************************************************************************)
(* Router: pathfinder.a_star(graph, coords, multipliers, start, goal,      *)
(* mode).  The cheapest path under base cost * multiplier; among equally   *)
(* cheap paths the lexicographically smallest node sequence; the empty     *)
(* path when the goal cannot be reached.                                   *)
(***************************************************************************)
RECURSIVE PathsFrom(_, _, _)
PathsFrom(G, p, t) ==
    LET last == p[Len(p)]
    IN  IF last = t THEN {p}
        ELSE UNION {PathsFrom(G, Append(p, e[2]), t) :
                        e \in {x \in OutEdges(G, last) : x[2] \notin Range(p)}}

SimplePaths ==
    [G \in Graphs \cup SpawnGraphs \cup {LineGraph} |-> [s \in NodesOf(G) |-> [t \in NodesOf(G) |-> PathsFrom(G, <<s>>, t)]]]

RECURSIVE PathCostFrom(_, _, _, _, _)
PathCostFrom(G, mult, p, mode, i) ==
    IF i >= Len(p) THEN 0
    ELSE BaseCost(G, <<p[i], p[i + 1]>>, mode) * mult[<<p[i], p[i + 1]>>]
            + PathCostFrom(G, mult, p, mode, i + 1)
PathCost(G, mult, p, mode) == PathCostFrom(G, mult, p, mode, 1)

LexLess(G, p, q) ==
    \E k \in 1..Len(q) :
        /\ \A j \in 1..(k - 1) : j <= Len(p) /\ p[j] = q[j]
        /\ \/ k > Len(p)
           \/ k <= Len(p) /\ NodeRank(G, p[k]) < NodeRank(G, q[k])

a_star(G, mult, s, t, mode) ==
    LET cands == SimplePaths[G][s][t]
    IN  IF cands = {} THEN [path |-> <<>>, cost |-> 0]
        ELSE LET best == CHOOSE p \in cands :
                            \A q \in cands \ {p} :
                                \/ PathCost(G, mult, p, mode) < PathCost(G, mult, q, mode)
                                \/ /\ PathCost(G, mult, p, mode) = PathCost(G, mult, q, mode)
                                   /\ LexLess(G, p, q)
             IN  [path |-> best, cost |-> PathCost(G, mult, best, mode)]

(***************************************************************************)
(* Vehicle (vehicle.py).  An id is the pair (type, n) of the string        *)
(* "<type>_<n>"; n comes from the class-level counter Vehicle._id_counter. *)
(* path_index counts from 0 as in the source: PyAt(path, i) is path[i].    *)
(***************************************************************************)
PyAt(seq, i) == seq[i + 1]
PyTail(seq, i) == SubSeq(seq, i + 1, Len(seq))

\* Vehicle.__init__, given the value the counter has after its increment.
NewVehicle(type, start, goal, n) ==
    [id |-> <<type, n>>, type |-> type,
     start_node |-> start, goal_node |-> goal,
     current_node |-> start, next_node |-> None,
     path |-> <<>>, path_index |-> 0,
     status |-> "waiting",
     position_on_edge |-> 0, current_speed |-> 0,
     target_speed |-> SPEED_MULTIPLIERS[type],
     reroute_count |-> 0]

\* A set_path that takes the first node of the path for the next node.
set_path_first(v, path) ==
    IF Len(path) > 1
    THEN [v EXCEPT !.path = path, !.path_index = 0,
                   !.next_node = PyAt(path, 0), !.status = "moving"]
    ELSE [v EXCEPT !.path = path, !.path_index = 0, !.next_node = None]

set_path(v, path) ==
    IF Len(path) > 1
    THEN [v EXCEPT !.path = path, !.path_index = 0,
                   !.next_node = PyAt(path, 1), !.status = "moving"]
    ELSE [v EXCEPT !.path = path, !.path_index = 0, !.next_node = None]

\* A move_to_next_node that leaves the status as it is at the last node.
move_to_next_node_on(v) ==
    IF v.path = <<>> \/ v.path_index >= Len(v.path) - 1
    THEN [v |-> [v EXCEPT !.status = "arrived"], result |-> FALSE]
    ELSE LET i == v.path_index + 1
             w == [v EXCEPT !.path_index = i, !.current_node = PyAt(v.path, i)]
         IN  IF i < Len(v.path) - 1
             THEN [v |-> [w EXCEPT !.next_node = PyAt(v.path, i + 1),
                                   !.status = "moving",
                                   !.position_on_edge = 0],
                   result |-> TRUE]
             ELSE [v |-> [w EXCEPT !.next_node = None], result |-> TRUE]

\* Returns the vehicle and the method's result.
move_to_next_node(v) ==
    IF v.path = <<>> \/ v.path_index >= Len(v.path) - 1
    THEN [v |-> [v EXCEPT !.status = "arrived"], result |-> FALSE]
    ELSE LET i == v.path_index + 1
             w == [v EXCEPT !.path_index = i, !.current_node = PyAt(v.path, i)]
         IN  IF i < Len(v.path) - 1
             THEN [v |-> [w EXCEPT !.next_node = PyAt(v.path, i + 1),
                                   !.status = "moving",
                                   !.position_on_edge = 0],
                   result |-> TRUE]
             ELSE [v |-> [w EXCEPT !.next_node = None, !.status = "arrived"],
                   result |-> TRUE]

\* The slew without the snap to the target when the difference is smaller
\* than one step of acceleration.
SlewSpeedNoSnap(current, target, delta_time) ==
    LET speed_diff == target - current
    IN  IF speed_diff > 0 THEN current + ACCELERATION * delta_time
        ELSE current - ACCELERATION * delta_time

\* The slew of current_speed toward target_speed by acceleration * delta_time.
SlewSpeed(current, target, delta_time) ==
    LET speed_diff == target - current
    IN  IF Abs(speed_diff) < ACCELERATION * delta_time THEN target
        ELSE IF speed_diff > 0 THEN current + ACCELERATION * delta_time
        ELSE current - ACCELERATION * delta_time

\* Returns the vehicle and whether it reached the end of the edge.
update_position(v, delta_time, edge_length) ==
    IF v.status # "moving" /\ v.status # "stuck"
    THEN [v |-> v, reached |-> FALSE]
    ELSE LET speed == SlewSpeed(v.current_speed, v.target_speed, delta_time)
             distance_moved == speed * delta_time
             pos == v.position_on_edge + (distance_moved * EdgeEnd) \div edge_length
         IN  IF pos >= EdgeEnd
             THEN [v |-> [v EXCEPT !.current_speed = speed, !.position_on_edge = EdgeEnd],
                   reached |-> TRUE]
             ELSE [v |-> [v EXCEPT !.current_speed = speed, !.position_on_edge = pos],
                   reached |-> FALSE]

slow_down_for_vehicle_ahead(v, distance_to_vehicle) ==
    IF distance_to_vehicle < MIN_DISTANCE
    THEN [v EXCEPT !.target_speed = 0, !.status = "stuck"]
    ELSE IF distance_to_vehicle < MIN_DISTANCE * 2
    THEN [v EXCEPT !.target_speed =
                        (SPEED_MULTIPLIERS[v.type] * distance_to_vehicle) \div (MIN_DISTANCE * 2),
                   !.status = "stuck"]
    ELSE [v EXCEPT !.target_speed = SPEED_MULTIPLIERS[v.type],
                   !.status = IF v.status = "stuck" THEN "moving" ELSE v.status]

\* A counter that goes down where the source's goes up.
increment_reroute_down(v) ==
    [v EXCEPT !.reroute_count = v.reroute_count - 1, !.status = "rerouting"]

increment_reroute(v) ==
    [v EXCEPT !.reroute_count = v.reroute_count + 1, !.status = "rerouting"]

(***************************************************************************)
(* VehicleManager (vehicle.py).  vehicles: id -> vehicle; active_vehicles: *)
(* a set of ids; edge_occupancy: edge -> sequence of ids.                  *)
(***************************************************************************)
\* An add_vehicle that enters the vehicle in the registry only.
add_vehicle_inactive(vehs, act, v) ==
    [vehicles |-> [i \in (DOMAIN vehs) \cup {v.id} |-> IF i = v.id THEN v ELSE vehs[i]],
     active_vehicles |-> act]

add_vehicle(vehs, act, v) ==
    [vehicles |-> [i \in (DOMAIN vehs) \cup {v.id} |-> IF i = v.id THEN v ELSE vehs[i]],
     active_vehicles |-> IF v.status # "arrived" THEN act \cup {v.id} ELSE act]

\* The ids of get_active_vehicles().
ActiveIds(vehs, act) == {i \in act : i \in DOMAIN vehs}

\* A Python value used as a dict key or compared with ==: a str (an id) or a
\* Vehicle object.  Objects of different classes are never equal.
StrKey(id) == <<"str", id>>
ObjKey(id) == <<"Vehicle", id>>

\* VehicleManager.get_vehicle: self.vehicles.get(key); the dict's keys are strs.
PyNone == <<"NoneType", <<>>>>
get_vehicle(vehs, key) ==
    IF key[1] = "str" /\ key[2] \in DOMAIN vehs THEN ObjKey(key[2]) ELSE PyNone

\* VehicleManager.get_vehicles_on_edge: the Vehicle objects of the ids listed.
get_vehicles_on_edge(vehs, occ, e) ==
    LET vehicle_ids == IF e \in DOMAIN occ THEN occ[e] ELSE <<>>
    IN  [k \in 1..Len(SelectSeq(vehicle_ids, LAMBDA i : i \in DOMAIN vehs)) |->
            ObjKey(SelectSeq(vehicle_ids, LAMBDA i : i \in DOMAIN vehs)[k])]

RECURSIVE IdsInOrder(_)
\* A set of ids as a sequence (the iteration order of the active set).
IdsInOrder(S) ==
    IF S = {} THEN <<>>
    ELSE LET m == CHOOSE x \in S : \A y \in S : x[2] <= y[2]
         IN  <<m>> \o IdsInOrder(S \ {m})

get_current_edge(v) == IF v.next_node # None THEN <<v.current_node, v.next_node>> ELSE None

\* list.remove(x): the list without the first occurrence of x.
ListRemove(seq, x) ==
    IF \A k \in 1..Len(seq) : seq[k] # x THEN seq
    ELSE LET first == CHOOSE k \in 1..Len(seq) :
                          seq[k] = x /\ \A j \in 1..(k - 1) : seq[j] # x
         IN  SubSeq(seq, 1, first - 1) \o SubSeq(seq, first + 1, Len(seq))

\* VehicleManager.remove_vehicle: the three collections and the result.
remove_vehicle(vehs, act, occ, vehicle_id) ==
    IF vehicle_id \in DOMAIN vehs
    THEN [vehicles |-> [i \in (DOMAIN vehs) \ {vehicle_id} |-> vehs[i]],
          active_vehicles |-> act \ {vehicle_id},
          edge_occupancy |-> [e \in DOMAIN occ |-> ListRemove(occ[e], vehicle_id)],
          result |-> TRUE]
    ELSE [vehicles |-> vehs, active_vehicles |-> act, edge_occupancy |-> occ,
          result |-> FALSE]

\* VehicleManager.clear_arrived_vehicles: remove_vehicle for every vehicle
\* whose status is arrived.
RECURSIVE clear_arrived_from(_, _, _, _)
clear_arrived_from(arrived, vehs, act, occ) ==
    IF arrived = {}
    THEN [vehicles |-> vehs, active_vehicles |-> act, edge_occupancy |-> occ]
    ELSE LET vid == CHOOSE x \in arrived : TRUE
             r == remove_vehicle(vehs, act, occ, vid)
         IN  clear_arrived_from(arrived \ {vid}, r.vehicles, r.active_vehicles,
                                r.edge_occupancy)

clear_arrived_vehicles(vehs, act, occ) ==
    clear_arrived_from({vid \in DOMAIN vehs : vehs[vid].status = "arrived"}, vehs, act, occ)

\* An occupancy map that keeps one id for each edge (an assignment where
\* the source appends).
update_edge_occupancy_one(vehs, act) ==
    LET on == {i \in ActiveIds(vehs, act) : vehs[i].next_node # None}
        edges == {get_current_edge(vehs[i]) : i \in on}
    IN  [e \in edges |-> <<CHOOSE i \in on : get_current_edge(vehs[i]) = e>>]

\* VehicleManager.update_edge_occupancy: rebuilt from the active vehicles
\* that have a current edge.
update_edge_occupancy(vehs, act) ==
    LET on == {i \in ActiveIds(vehs, act) : vehs[i].next_node # None}
        edges == {get_current_edge(vehs[i]) : i \in on}
    IN  [e \in edges |-> IdsInOrder({i \in on : get_current_edge(vehs[i]) = e})]

(***************************************************************************)
(* MultiVehicleSimulator (multi_vehicle_simulator.py): the kernel's state. *)
(***************************************************************************)
VARIABLES
    graph,               \* the road network given to the constructor
    edge_lengths,        \* edge -> length, cached at construction
    congestion_points,   \* the hotspot edges, drawn at construction
    traffic_multipliers, \* edge -> multiplier
    blocked_roads,       \* the edges with a manual block
    accidents,           \* n -> accident, for the accident ids "accident_<n>"
    accident_counter,
    vehicles,            \* VehicleManager.vehicles
    active_vehicles,     \* VehicleManager.active_vehicles
    edge_occupancy,      \* VehicleManager.edge_occupancy
    id_counter,          \* Vehicle._id_counter
    simulation_step,
    is_running,
    total_spawned,
    start_time,
    last_update_time,
    clock,               \* the wall clock, time.time()
    commands,            \* the number of commands the client has issued (ticks not counted)
    peer_vehicles,       \* the ids in VehicleManager.vehicles of a second kernel of the process
    runner,              \* the thread in run_continuous_simulation: where it is, its
                         \* arguments and its loop variable
    ret                  \* the last command and what it returned or raised

vars == <<graph, edge_lengths, congestion_points, traffic_multipliers, blocked_roads,
          accidents, accident_counter, vehicles, active_vehicles, edge_occupancy,
          id_counter, simulation_step, is_running, total_spawned, start_time,
          last_update_time, clock, commands, peer_vehicles, runner, ret>>

site == <<graph, edge_lengths, congestion_points, start_time, peer_vehicles>>
world == <<site, runner>>

\* The runner before run_continuous_simulation is called.
RunnerIdle ==
    [pc |-> "idle", step |-> 0, duration_steps |-> 0, spawn_rate |-> 0, stop_called |-> FALSE]
registry == <<vehicles, active_vehicles, edge_occupancy, id_counter>>

Returned(op, result) == [op |-> op, result |-> result, moved |-> 0, arrived |-> 0]

\* The client issues one more command.
Command == commands < MaxCommands /\ commands' = commands + 1

\* MultiVehicleSimulator.__init__ on graph G with the hotspot draw hs, the
\* multiplier table being mult.
ConstructWith(G, hs, mult) ==
    /\ graph = G
    /\ edge_lengths = CalculateEdgeLengths(G)
    /\ congestion_points = hs
    /\ traffic_multipliers = mult
    /\ blocked_roads = {}
    /\ accidents = <<>>
    /\ accident_counter = 0
    /\ vehicles = <<>>
    /\ active_vehicles = {}
    /\ edge_occupancy = <<>>
    /\ id_counter = 0
    /\ simulation_step = 0
    /\ is_running = FALSE
    /\ total_spawned = 0
    /\ start_time = 0
    /\ last_update_time = 0
    /\ clock = 0
    /\ commands = 0
    /\ peer_vehicles = {}
    /\ runner = RunnerIdle
    /\ ret = Returned("init", "ok")

Construct(G, hs) == ConstructWith(G, hs, InitializeTrafficMultipliers(G, <<>>))

HotspotDraws == {{<<"A", "B">>}}

Init == \E G \in Graphs : \E hs \in HotspotChoices(G) \cap HotspotDraws : Construct(G, hs)

(***************************************************************************)
(* Accidents and road blocks.                                              *)
(***************************************************************************)
\* create_accident from line 113 on, once the edge is chosen.  The accident
\* is entered in the book before the multiplier is looked up: an edge that
\* is not in the table raises KeyError with the accident already recorded.
create_accident(acc, counter, mult, from_node, to_node, severity, duration, now) ==
    LET n == counter + 1
        accident == [from_node |-> from_node, to_node |-> to_node,
                     severity |-> severity, created_at |-> now, duration |-> duration]
        book == [i \in (DOMAIN acc) \cup {n} |-> IF i = n THEN accident ELSE acc[i]]
        e == <<from_node, to_node>>
    IN  IF e \in DOMAIN mult
        THEN [accidents |-> book, accident_counter |-> n,
              traffic_multipliers |->
                  [mult EXCEPT ![e] = @ * severity_multipliers[severity]],
              raised |-> FALSE]
        ELSE [accidents |-> book, accident_counter |-> n,
              traffic_multipliers |-> mult, raised |-> TRUE]

\* resolve_accident: the multiplier is divided before the accident is deleted.
resolve_accident(acc, mult, n) ==
    IF n \notin DOMAIN acc
    THEN [accidents |-> acc, traffic_multipliers |-> mult, result |-> FALSE, raised |-> FALSE]
    ELSE LET e == <<acc[n].from_node, acc[n].to_node>>
         IN  IF e \notin DOMAIN mult
             THEN [accidents |-> acc, traffic_multipliers |-> mult,
                   result |-> FALSE, raised |-> TRUE]
             ELSE [accidents |-> [i \in (DOMAIN acc) \ {n} |-> acc[i]],
                   traffic_multipliers |->
                       [mult EXCEPT ![e] = @ \div severity_multipliers[acc[n].severity]],
                   result |-> TRUE, raised |-> FALSE]

Durations == {300}

\* The command create_accident(from_node, to_node); NoArg stands for a call
\* that leaves an argument out, which draws the edge at random.
NoArg == <<>>

AccidentOn(from_node, to_node) ==
    \E severity \in Severities, duration \in Durations :
        LET r == create_accident(accidents, accident_counter, traffic_multipliers,
                                 from_node, to_node, severity, duration, clock)
        IN  /\ accidents' = r.accidents
            /\ accident_counter' = r.accident_counter
            /\ traffic_multipliers' = r.traffic_multipliers
            /\ ret' = Returned("create_accident",
                               IF r.raised THEN "KeyError" ELSE "accident")

NoAccident ==
    /\ ret' = Returned("create_accident", "null")
    /\ UNCHANGED <<traffic_multipliers, accidents, accident_counter>>

CreateAccidentWith(pairs) ==
    /\ Command
    /\ accident_counter < MaxAccidents
    /\ \E arg \in pairs :
          IF arg # NoArg THEN AccidentOn(arg[1], arg[2])
          ELSE IF Len(graph.nodes) = 0 THEN NoAccident
          ELSE \E from_node \in NodesOf(graph) :
                  IF graph.adj[from_node] = <<>> THEN NoAccident
                  ELSE \E i \in 1..Len(graph.adj[from_node]) :
                          AccidentOn(from_node, graph.adj[from_node][i].to)
    /\ UNCHANGED <<world, registry, blocked_roads, simulation_step, is_running,
                   total_spawned, last_update_time, clock>>

ResolveAccidentWith(ids) ==
    /\ Command
    /\ \E n \in ids :
       LET r == resolve_accident(accidents, traffic_multipliers, n)
       IN  /\ accidents' = r.accidents
           /\ traffic_multipliers' = r.traffic_multipliers
           /\ ret' = Returned("resolve_accident",
                              IF r.raised THEN "KeyError"
                              ELSE IF r.result THEN "True" ELSE "False")
    /\ UNCHANGED <<world, registry, blocked_roads, accident_counter, simulation_step,
                   is_running, total_spawned, last_update_time, clock>>

BlockRoadWith(pairs) ==
    /\ Command
    /\ \E e \in pairs :
          IF e \notin DOMAIN traffic_multipliers
          THEN /\ ret' = Returned("block_road", "False")
               /\ UNCHANGED <<blocked_roads, traffic_multipliers>>
          ELSE /\ blocked_roads' = blocked_roads \cup {e}
               /\ traffic_multipliers' = [traffic_multipliers EXCEPT ![e] = BLOCKED_MULTIPLIER]
               /\ ret' = Returned("block_road", "True")
    /\ UNCHANGED <<world, registry, accidents, accident_counter, simulation_step,
                   is_running, total_spawned, last_update_time, clock>>

\* An unblock_road that restores the default multiplier of an edge that is
\* not blocked.
UnblockRoadWithRestore(pairs) ==
    /\ Command
    /\ \E e \in pairs :
          IF e \notin blocked_roads
          THEN /\ ret' = Returned("unblock_road", "False")
               /\ traffic_multipliers' =
                      [traffic_multipliers EXCEPT ![e] = DEFAULT_TRAFFIC_MULTIPLIER]
               /\ UNCHANGED blocked_roads
          ELSE /\ blocked_roads' = blocked_roads \ {e}
               /\ traffic_multipliers' =
                      [traffic_multipliers EXCEPT ![e] = DEFAULT_TRAFFIC_MULTIPLIER]
               /\ ret' = Returned("unblock_road", "True")
    /\ UNCHANGED <<world, registry, accidents, accident_counter, simulation_step,
                   is_running, total_spawned, last_update_time, clock>>

UnblockRoadWith(pairs) ==
    /\ Command
    /\ \E e \in pairs :
          IF e \notin blocked_roads
          THEN /\ ret' = Returned("unblock_road", "False")
               /\ UNCHANGED <<blocked_roads, traffic_multipliers>>
          ELSE /\ blocked_roads' = blocked_roads \ {e}
               /\ traffic_multipliers' =
                      [traffic_multipliers EXCEPT ![e] = DEFAULT_TRAFFIC_MULTIPLIER]
               /\ ret' = Returned("unblock_road", "True")
    /\ UNCHANGED <<world, registry, accidents, accident_counter, simulation_step,
                   is_running, total_spawned, last_update_time, clock>>

(***************************************************************************)
(* Spawning and reset.                                                     *)
(***************************************************************************)
\* The command spawn_vehicle(vehicle_type, start_node, goal_node); a request
\* is the pair of the two node arguments, None for one that is left out.
SpawnVehicleWith(types, requests) ==
    /\ Command
    /\ id_counter < MaxVehicles
    /\ \E vehicle_type \in types, request \in requests :
          IF Len(graph.nodes) = 0
          THEN /\ ret' = Returned("spawn_vehicle", "null")
               /\ UNCHANGED <<registry, total_spawned>>
          ELSE \E start_node \in IF request[1] = None THEN NodesOf(graph)
                                 ELSE {request[1]} :
               LET available_goals == NodesOf(graph) \ {start_node}
               IN  IF request[2] = None /\ available_goals = {}
                   THEN /\ ret' = Returned("spawn_vehicle", "null")
                        /\ UNCHANGED <<registry, total_spawned>>
                   ELSE \E goal_node \in IF request[2] = None THEN available_goals
                                         ELSE {request[2]} :
                        LET n == id_counter + 1
                            vehicle == NewVehicle(vehicle_type, start_node, goal_node, n)
                            r == a_star(graph, traffic_multipliers, start_node,
                                        goal_node, vehicle_type)
                            m == add_vehicle(vehicles, active_vehicles,
                                             set_path(vehicle, r.path))
                        IN  /\ id_counter' = n
                            /\ IF r.path # <<>>
                               THEN /\ vehicles' = m.vehicles
                                    /\ active_vehicles' = m.active_vehicles
                                    /\ total_spawned' = total_spawned + 1
                                    /\ ret' = Returned("spawn_vehicle", "vehicle")
                               ELSE /\ ret' = Returned("spawn_vehicle", "null")
                                    /\ UNCHANGED <<vehicles, active_vehicles, total_spawned>>
                            /\ UNCHANGED edge_occupancy
    /\ UNCHANGED <<site, traffic_multipliers, blocked_roads, accidents, accident_counter,
                   simulation_step, is_running, last_update_time, clock>>

\* The command remove_vehicle(vehicle_id).
RemoveVehicleWith(ids) ==
    /\ Command
    /\ \E vehicle_id \in ids :
       LET r == remove_vehicle(vehicles, active_vehicles, edge_occupancy, vehicle_id)
       IN  /\ vehicles' = r.vehicles
           /\ active_vehicles' = r.active_vehicles
           /\ edge_occupancy' = r.edge_occupancy
           /\ ret' = Returned("remove_vehicle", IF r.result THEN "True" ELSE "False")
    /\ UNCHANGED <<world, traffic_multipliers, blocked_roads, accidents, accident_counter,
                   id_counter, simulation_step, is_running, total_spawned,
                   last_update_time, clock>>

\* reset_simulation, with VehicleManager.reset.
ResetSimulation ==
    /\ Command
    /\ vehicles' = <<>>
    /\ active_vehicles' = {}
    /\ edge_occupancy' = <<>>
    /\ id_counter' = 0
    /\ traffic_multipliers' = InitializeTrafficMultipliers(graph, traffic_multipliers)
    /\ simulation_step' = 0
    /\ is_running' = FALSE
    /\ total_spawned' = 0
    /\ ret' = Returned("reset_simulation", "ok")
    /\ UNCHANGED <<world, blocked_roads, accidents, accident_counter, last_update_time, clock>>

(***************************************************************************)
(* Rerouting.                                                              *)
(***************************************************************************)
\* _should_reroute; congested is the set of edges whose congestion
\* probability the analyzer reports above 0.5.
should_reroute(v, blocked, congested) ==
    IF v.path = <<>> \/ Len(v.path) < 2 THEN FALSE
    ELSE LET upcoming_edges ==
                 {<<PyAt(v.path, i), PyAt(v.path, i + 1)>> :
                     i \in v.path_index..(Min(v.path_index + 3, Len(v.path) - 1) - 1)}
         IN  \/ \E e \in upcoming_edges : e \in blocked
             \/ \E e \in upcoming_edges : e \in congested

\* A reroute that stops after increment_reroute (lines 354-355): the status
\* stays on rerouting and path_index and target_speed are not set again.
reroute_vehicle_unfinished(G, mult, v) ==
    LET r == a_star(G, mult, v.current_node, v.goal_node, v.type)
    IN  IF r.path # <<>> /\ r.path # PyTail(v.path, v.path_index)
        THEN increment_reroute(set_path(v, r.path))
        ELSE v

\* A reroute that adopts every non-empty result, the remaining tail too.
reroute_vehicle_always(G, mult, v) ==
    LET r == a_star(G, mult, v.current_node, v.goal_node, v.type)
    IN  IF r.path # <<>>
        THEN [increment_reroute(set_path(v, r.path)) EXCEPT
                 !.path_index = 0,
                 !.target_speed = SPEED_MULTIPLIERS[v.type],
                 !.status = "moving"]
        ELSE v

reroute_vehicle(G, mult, v) ==
    LET r == a_star(G, mult, v.current_node, v.goal_node, v.type)
    IN  IF r.path # <<>> /\ r.path # PyTail(v.path, v.path_index)
        THEN [increment_reroute(set_path(v, r.path)) EXCEPT
                 !.path_index = 0,
                 !.target_speed = SPEED_MULTIPLIERS[v.type],
                 !.status = "moving"]
        ELSE v

(***************************************************************************)
(* simulation_tick.                                                        *)
(***************************************************************************)
\* The vehicle ahead on the same edge (lines 437-460): the least pixel
\* distance to a vehicle of the edge's occupancy list that lies ahead, or -1
\* when the loop finds none.  The loop variable runs over Vehicle objects.
DistanceAhead(v, vehs, occ, lengths) ==
    LET edge == <<v.current_node, v.next_node>>
        vehicles_on_edge == get_vehicles_on_edge(vehs, occ, edge)
        ahead == {k \in 1..Len(vehicles_on_edge) :
                     LET other_id == vehicles_on_edge[k]
                         other == get_vehicle(vehs, other_id)
                     IN  /\ other_id # StrKey(v.id)
                         /\ other # PyNone
                         /\ vehs[other[2]].position_on_edge > v.position_on_edge}
        pixel_distance(k) ==
            LET other == get_vehicle(vehs, vehicles_on_edge[k])
            IN  ((vehs[other[2]].position_on_edge - v.position_on_edge)
                    * EdgeLength(lengths, edge)) \div EdgeEnd
    IN  IF ahead = {} THEN 0 - 1
        ELSE LET k == CHOOSE x \in ahead :
                         \A y \in ahead : pixel_distance(x) <= pixel_distance(y)
             IN  pixel_distance(k)

\* Lines 470-477: max_speed * max(1 / multiplier, 0.2) on a congested edge.
IdealSpeed(v, traffic_multiplier) ==
    IF traffic_multiplier > DEFAULT_TRAFFIC_MULTIPLIER
    THEN LET speed_factor ==
                 (DEFAULT_TRAFFIC_MULTIPLIER * DEFAULT_TRAFFIC_MULTIPLIER)
                     \div traffic_multiplier
         IN  (SPEED_MULTIPLIERS[v.type]
                 * Max(speed_factor, DEFAULT_TRAFFIC_MULTIPLIER \div 5))
                 \div DEFAULT_TRAFFIC_MULTIPLIER
    ELSE SPEED_MULTIPLIERS[v.type]

\* A deadband whose step is 0.2 px/s for a large difference too.
DeadbandTargetEven(v, ideal_speed) ==
    IF v.current_speed < 200
    THEN IF v.target_speed * 10 < SPEED_MULTIPLIERS[v.type] * 9
         THEN SPEED_MULTIPLIERS[v.type]
         ELSE v.target_speed
    ELSE LET speed_diff == ideal_speed - v.target_speed
         IN  IF Abs(speed_diff) > 10
             THEN IF speed_diff > 0 THEN Min(v.target_speed + 4, ideal_speed)
                  ELSE Max(ideal_speed, v.target_speed - 4)
             ELSE v.target_speed

\* Lines 483-505: the target speed without a vehicle ahead.  Thresholds in
\* speed units: 10 px/s = 200, 2.0 = 40, 0.5 = 10, 0.1 = 2, 0.2 = 4.
DeadbandTarget(v, ideal_speed) ==
    IF v.current_speed < 200
    THEN IF v.target_speed * 10 < SPEED_MULTIPLIERS[v.type] * 9
         THEN SPEED_MULTIPLIERS[v.type]
         ELSE v.target_speed
    ELSE LET speed_diff == ideal_speed - v.target_speed
         IN  IF Abs(speed_diff) > 40
             THEN IF speed_diff > 0 THEN Min(v.target_speed + 2, ideal_speed)
                  ELSE Max(ideal_speed, v.target_speed - 2)
             ELSE IF Abs(speed_diff) > 10
             THEN IF speed_diff > 0 THEN Min(v.target_speed + 4, ideal_speed)
                  ELSE Max(ideal_speed, v.target_speed - 4)
             ELSE v.target_speed

\* Lines 507-511: multiplier above 3.0 and speed below 1 px/s: stuck; stuck
\* and speed above 3 px/s: moving.
DeadbandStatus(v, traffic_multiplier) ==
    IF traffic_multiplier > 3 * DEFAULT_TRAFFIC_MULTIPLIER /\ v.current_speed < 20
    THEN "stuck"
    ELSE IF v.status = "stuck" /\ v.current_speed > 60 THEN "moving"
    ELSE v.status

\* The first pass over one vehicle (lines 420-511).
FirstPass(v, G, mult, blocked, congested, vehs, occ, lengths) ==
    IF v.status = "arrived" \/ v.next_node = None THEN v
    ELSE LET edge == <<v.current_node, v.next_node>>
         IN  IF edge \in blocked
             THEN IF should_reroute(v, blocked, congested)
                  THEN reroute_vehicle(G, mult, v)
                  ELSE [v EXCEPT !.target_speed = 0, !.status = "stuck"]
             ELSE LET min_distance == DistanceAhead(v, vehs, occ, lengths)
                  IN  IF min_distance >= 0
                      THEN slow_down_for_vehicle_ahead(v, min_distance)
                      ELSE LET traffic_multiplier ==
                                   IF edge \in DOMAIN mult THEN mult[edge]
                                   ELSE DEFAULT_TRAFFIC_MULTIPLIER
                           IN  [v EXCEPT
                                  !.target_speed =
                                      DeadbandTarget(v, IdealSpeed(v, traffic_multiplier)),
                                  !.status = DeadbandStatus(v, traffic_multiplier)]

\* A second pass that counts a vehicle that had arrived before the tick.
SecondPassRecount(v, delta_time, lengths) ==
    IF v.status = "arrived" \/ v.next_node = None
    THEN [v |-> v, moved |-> 0, arrived |-> IF v.status = "arrived" THEN 1 ELSE 0]
    ELSE LET u == update_position(v, delta_time,
                                  EdgeLength(lengths, <<v.current_node, v.next_node>>))
         IN  IF u.reached
             THEN LET m == move_to_next_node(u.v)
                  IN  [v |-> m.v,
                       moved |-> IF m.result THEN 1 ELSE 0,
                       arrived |-> IF m.v.status = "arrived" THEN 1 ELSE 0]
             ELSE [v |-> u.v, moved |-> 0, arrived |-> 0]

\* The second pass over one vehicle (lines 514-530): the vehicle, and what
\* it adds to the counts moved and arrived.
SecondPass(v, delta_time, lengths) ==
    IF v.status = "arrived" \/ v.next_node = None
    THEN [v |-> v, moved |-> 0, arrived |-> 0]
    ELSE LET u == update_position(v, delta_time,
                                  EdgeLength(lengths, <<v.current_node, v.next_node>>))
         IN  IF u.reached
             THEN LET m == move_to_next_node(u.v)
                  IN  [v |-> m.v,
                       moved |-> IF m.result THEN 1 ELSE 0,
                       arrived |-> IF m.v.status = "arrived" THEN 1 ELSE 0]
             ELSE [v |-> u.v, moved |-> 0, arrived |-> 0]

RECURSIVE AutoResolve(_, _, _, _, _)
\* Lines 393-396: the accidents in insertion order; an accident older than
\* its duration is resolved.  A KeyError ends the loop and the tick.
AutoResolve(ids, i, acc, mult, current_time) ==
    IF i > Len(ids) THEN [accidents |-> acc, traffic_multipliers |-> mult, raised |-> FALSE]
    ELSE IF current_time - acc[ids[i]].created_at > acc[ids[i]].duration
    THEN LET r == resolve_accident(acc, mult, ids[i])
         IN  IF r.raised
             THEN [accidents |-> r.accidents, traffic_multipliers |-> r.traffic_multipliers,
                   raised |-> TRUE]
             ELSE AutoResolve(ids, i + 1, r.accidents, r.traffic_multipliers, current_time)
    ELSE AutoResolve(ids, i + 1, acc, mult, current_time)

\* TrafficAnalyzer.update_traffic_multipliers: the collaborator's refresh of
\* the table; it is taken to leave the kernel's entries as they are.
update_traffic_multipliers(mult) == mult

\* A drift without the ceiling on the new multiplier.
HotspotDriftNoCeiling(base_multiplier, congestion_factor, u) ==
    LET time_penalty == DEFAULT_TRAFFIC_MULTIPLIER
                            + (congestion_factor * u) \div DEFAULT_TRAFFIC_MULTIPLIER
        new_multiplier == (base_multiplier * time_penalty) \div DEFAULT_TRAFFIC_MULTIPLIER
    IN  (base_multiplier * 7 + new_multiplier * 3) \div 10

\* Lines 403-412: one hotspot edge's drift, with the draw u of
\* random.uniform(0.5, 2.0) and the congestion factor, both in multiplier units.
HotspotDrift(base_multiplier, congestion_factor, u) ==
    LET time_penalty == DEFAULT_TRAFFIC_MULTIPLIER
                            + (congestion_factor * u) \div DEFAULT_TRAFFIC_MULTIPLIER
        \* min(base * time_penalty, 5.0); time_penalty >= 1.0, so a base at
        \* or above the ceiling gives the ceiling
        new_multiplier ==
            IF base_multiplier >= HOTSPOT_CEILING THEN HOTSPOT_CEILING
            ELSE Min((base_multiplier * time_penalty) \div DEFAULT_TRAFFIC_MULTIPLIER,
                     HOTSPOT_CEILING)
    IN  (base_multiplier * 7 + new_multiplier * 3) \div 10

DriftSamples == {500, 2000}

\* A drift that takes every edge of the table for a hotspot edge.
ApplyHotspotsEveryEdge(mult, step, congestion_factor, draw) ==
    IF step % 30 = 0
    THEN [e \in DOMAIN mult |->
            IF congestion_factor * 10 > 3 * DEFAULT_TRAFFIC_MULTIPLIER
            THEN HotspotDrift(mult[e], congestion_factor,
                              IF e \in DOMAIN draw THEN draw[e] ELSE 2000)
            ELSE mult[e]]
    ELSE mult

ApplyHotspots(mult, step, congestion_factor, draw) ==
    IF step % 30 = 0
    THEN [e \in DOMAIN mult |->
            IF e \in congestion_points /\ congestion_factor * 10 > 3 * DEFAULT_TRAFFIC_MULTIPLIER
            THEN HotspotDrift(mult[e], congestion_factor, draw[e])
            ELSE mult[e]]
    ELSE mult

\* The random accident of lines 389-390: none, or create_accident() on a
\* random edge (the draw can succeed only when elapsed_time > 0).
RandomAccidents(acc, counter, mult, elapsed_time, current_time, random_edges) ==
    {[accidents |-> acc, accident_counter |-> counter, traffic_multipliers |-> mult,
      raised |-> FALSE]}
    \cup
    IF elapsed_time > 0 /\ counter < MaxAccidents
    THEN {create_accident(acc, counter, mult, e[1], e[2], severity, duration, current_time) :
             e \in EdgesOf(graph) \cap random_edges,
             severity \in Severities, duration \in Durations}
    ELSE {}

SimulationTickWith(clock_steps, max_step, congestion_choices, random_edges) ==
    /\ simulation_step < max_step
    /\ \E d \in clock_steps :
       LET current_time == clock + d
           delta_time == Min(current_time - last_update_time, MAX_DELTA_TIME)
           elapsed_time == current_time - start_time
           congestion_factor ==
               Min((elapsed_time * DEFAULT_TRAFFIC_MULTIPLIER) \div 600,
                   DEFAULT_TRAFFIC_MULTIPLIER)
       IN
       /\ clock' = current_time
       /\ last_update_time' = current_time
       /\ simulation_step' = simulation_step + 1
       /\ \E ra \in RandomAccidents(accidents, accident_counter, traffic_multipliers,
                                    elapsed_time, current_time, random_edges) :
          LET ar == AutoResolve(SortedSeq(DOMAIN ra.accidents), 1, ra.accidents,
                                ra.traffic_multipliers, current_time)
          IN
          /\ accident_counter' = ra.accident_counter
          /\ accidents' = ar.accidents
          /\ IF ar.raised
             THEN /\ traffic_multipliers' = ar.traffic_multipliers
                  /\ ret' = Returned("simulation_tick", "KeyError")
                  /\ UNCHANGED <<vehicles, edge_occupancy>>
             ELSE \E draw \in IF (simulation_step + 1) % 30 = 0
                                THEN [congestion_points -> DriftSamples]
                                ELSE {[e \in congestion_points |-> 500]},
                     congested \in congestion_choices :
                  LET mult == ApplyHotspots(
                                  update_traffic_multipliers(ar.traffic_multipliers),
                                  simulation_step + 1, congestion_factor, draw)
                      act == ActiveIds(vehicles, active_vehicles)
                      first == [i \in act |->
                                   FirstPass(vehicles[i], graph, mult, blocked_roads,
                                             congested, vehicles, edge_occupancy,
                                             edge_lengths)]
                      second == [i \in act |-> SecondPass(first[i], delta_time, edge_lengths)]
                      vehs == [i \in DOMAIN vehicles |->
                                  IF i \in act THEN second[i].v ELSE vehicles[i]]
                      moved == Cardinality({i \in act : second[i].moved = 1})
                      arrived == Cardinality({i \in act : second[i].arrived = 1})
                  IN  /\ traffic_multipliers' = mult
                      /\ vehicles' = vehs
                      /\ edge_occupancy' = update_edge_occupancy(vehs, active_vehicles)
                      /\ ret' = [op |-> "simulation_tick", result |-> "summary",
                                 moved |-> moved, arrived |-> arrived]
    /\ UNCHANGED <<site, blocked_roads, active_vehicles, id_counter, is_running,
                   total_spawned, commands>>

(***************************************************************************)
(* The kernel's commands with the inputs of the model.                     *)
(***************************************************************************)
NodePairs == {<<"A", "B">>, <<"B", "D">>, <<"A", "D">>}
AccidentArgs == {<<"B", "D">>, <<"A", "D">>, NoArg}
SpawnRequests == {<<"A", "D">>, <<"B", "D">>, <<"B", "B">>}
CongestionChoices == {{}, {<<"B", "D">>}}

SpawnVehicle == SpawnVehicleWith({"car"}, SpawnRequests) /\ UNCHANGED runner
CreateAccident == CreateAccidentWith(AccidentArgs)
ResolveAccident == ResolveAccidentWith(1..MaxAccidents)
BlockRoad == BlockRoadWith(NodePairs)
UnblockRoad == UnblockRoadWith(NodePairs)
RemoveVehicle == RemoveVehicleWith({<<"car", 1>>, <<"car", 2>>})
SimulationTick == SimulationTickWith({2}, MaxStep, CongestionChoices, {}) /\ UNCHANGED runner

Next ==
    \/ SpawnVehicle
    \/ CreateAccident
    \/ ResolveAccident
    \/ BlockRoad
    \/ UnblockRoad
    \/ RemoveVehicle
    \/ SimulationTick
    \/ ResetSimulation

Spec == Init /\ [][Next]_vars

(***************************************************************************)
(* The roads alone, with a wall clock that also jumps by 40 s between two  *)
(* ticks (accidents last 30 s) and with the tick's own random accidents.   *)
(***************************************************************************)
AgingTick == SimulationTickWith({2, 400}, MaxStep, {{}}, {<<"A", "B">>}) /\ UNCHANGED runner

NextAging ==
    \/ CreateAccident
    \/ ResolveAccident
    \/ BlockRoad
    \/ UnblockRoad
    \/ AgingTick
    \/ ResetSimulation

SpecAging == Init /\ [][NextAging]_vars

(***************************************************************************)
(* A long run: ticks of 0.2 s up to MaxRunStep (the first one 0 s, 0.1 s,  *)
(* 0.2 s or 40 s after the construction), with the commands arriving       *)
(* before the first tick or at a tick of RunCommandSteps, when a car has   *)
(* reached 10 px/s.                                                        *)
(***************************************************************************)
RunCommandSteps == {0, 36}
RunRequests == {<<"A", "D">>, <<"B", "D">>}

RunSpawn ==
    /\ simulation_step \in RunCommandSteps
    /\ SpawnVehicleWith({"car", "pedestrian"}, RunRequests)
    /\ UNCHANGED runner
RunAccident ==
    /\ simulation_step \in RunCommandSteps
    /\ CreateAccidentWith({<<"B", "D">>})
RunBlock ==
    /\ simulation_step \in RunCommandSteps
    /\ BlockRoadWith({<<"A", "B">>, <<"B", "D">>})
RunRemove ==
    /\ simulation_step \in RunCommandSteps
    /\ RemoveVehicleWith({<<"car", 1>>})
RunTick ==
    SimulationTickWith(IF simulation_step = 0 THEN {0, 1, 2, 400} ELSE {2},
                       MaxRunStep, {{}}, {})
    /\ UNCHANGED runner

NextRun ==
    \/ RunSpawn
    \/ RunAccident
    \/ RunBlock
    \/ RunRemove
    \/ RunTick

SpecRun == Init /\ [][NextRun]_vars
(***************************************************************************)
(* The multipliers as binary floating-point numbers.  The table holds      *)
(* Python floats; create_accident multiplies an entry in place and         *)
(* resolve_accident divides it, each result rounded to the nearest float   *)
(* (ties to even).  A float is man * 2^exp with MantissaBits bits of       *)
(* mantissa: 2^(MantissaBits-1) <= man < 2^MantissaBits.                   *)
(***************************************************************************)
MantissaBits == 24
MaxSample == 40

RECURSIVE Pow2(_)
Pow2(n) == IF n = 0 THEN 1 ELSE 2 * Pow2(n - 1)

\* n * 2^exp, n >= 2^(MantissaBits-1), plus a fraction below one unit of n
\* that is not zero when sticky: rounded to the nearest float, ties to even.
RoundNearestEven(n, sticky, exp) ==
    LET shift == CHOOSE k \in 0..8 :
                     /\ n \div Pow2(k) < Pow2(MantissaBits)
                     /\ k = 0 \/ n \div Pow2(k - 1) >= Pow2(MantissaBits)
    IN  IF shift = 0 THEN [man |-> n, exp |-> exp]
        ELSE LET q == n \div Pow2(shift)
                 low == n % Pow2(shift)
                 half == Pow2(shift - 1)
                 up == \/ low > half
                       \/ low = half /\ (sticky \/ q % 2 = 1)
                 r == IF up THEN q + 1 ELSE q
             IN  IF r = Pow2(MantissaBits)
                 THEN [man |-> Pow2(MantissaBits - 1), exp |-> exp + shift + 1]
                 ELSE [man |-> r, exp |-> exp + shift]

\* x * factor and x / factor for a float x and a factor 2, 4 or 10.
FloatMul(x, factor) == RoundNearestEven(x.man * factor, FALSE, x.exp)
FloatDiv(x, factor) ==
    RoundNearestEven((x.man * 32) \div factor, (x.man * 32) % factor # 0, x.exp - 5)

\* The float above x, and whether two floats are equal or neighbours.
FloatSucc(x) ==
    IF x.man = Pow2(MantissaBits) - 1
    THEN [man |-> Pow2(MantissaBits - 1), exp |-> x.exp + 1]
    ELSE [man |-> x.man + 1, exp |-> x.exp]
FloatNear(x, y) == x = y \/ FloatSucc(x) = y \/ FloatSucc(y) = x

\* 1.0, and the multipliers an edge starts with: 1.0 and the MaxSample + 1
\* floats below 2.0 (the hotspot drift leaves an edge on any float of [1, 5]).
FloatOne == [man |-> Pow2(MantissaBits - 1), exp |-> 1 - MantissaBits]
FloatSamples ==
    {FloatOne} \cup {[man |-> Pow2(MantissaBits) - 1 - k, exp |-> 1 - MantissaBits] :
                        k \in 0..MaxSample}

\* The edge of the accident, and an edge that no operation touches.
FloatEdge == <<"A", "B">>
FloatControl == <<"A", "C">>

\* The kernel as constructed, and then every edge on the multiplier m.
FloatInit ==
    \E G \in Graphs : \E hs \in HotspotChoices(G) \cap HotspotDraws :
        \E m \in FloatSamples : ConstructWith(G, hs, [e \in EdgesOf(G) |-> m])

\* create_accident(from_node, to_node) on the float table (lines 113-131).
FloatCreateAccident ==
    /\ accident_counter < MaxAccidents
    /\ \E severity \in Severities, duration \in Durations :
          LET n == accident_counter + 1
              accident == [from_node |-> FloatEdge[1], to_node |-> FloatEdge[2],
                           severity |-> severity, created_at |-> clock,
                           duration |-> duration]
          IN  /\ accidents' = [i \in (DOMAIN accidents) \cup {n} |->
                                  IF i = n THEN accident ELSE accidents[i]]
              /\ accident_counter' = n
              /\ traffic_multipliers' =
                     [traffic_multipliers EXCEPT
                         ![FloatEdge] = FloatMul(@, severity_multipliers[severity])]
              /\ ret' = Returned("create_accident", "accident")
    /\ UNCHANGED <<world, registry, blocked_roads, simulation_step, is_running,
                   total_spawned, last_update_time, clock, commands>>

\* A resolve that deletes the accident and leaves the multiplier as it is.
resolve_accident_float_keep(acc, mult, n) ==
    IF n \notin DOMAIN acc
    THEN [accidents |-> acc, traffic_multipliers |-> mult, result |-> FALSE]
    ELSE [accidents |-> [i \in (DOMAIN acc) \ {n} |-> acc[i]],
          traffic_multipliers |-> mult, result |-> TRUE]

\* resolve_accident on the float table (lines 133-147).
resolve_accident_float(acc, mult, n) ==
    IF n \notin DOMAIN acc
    THEN [accidents |-> acc, traffic_multipliers |-> mult, result |-> FALSE]
    ELSE LET e == <<acc[n].from_node, acc[n].to_node>>
         IN  [accidents |-> [i \in (DOMAIN acc) \ {n} |-> acc[i]],
              traffic_multipliers |->
                  [mult EXCEPT ![e] = FloatDiv(@, severity_multipliers[acc[n].severity])],
              result |-> TRUE]

FloatResolveAccident ==
    /\ \E n \in DOMAIN accidents :
       LET r == resolve_accident_float(accidents, traffic_multipliers, n)
       IN  /\ accidents' = r.accidents
           /\ traffic_multipliers' = r.traffic_multipliers
           /\ ret' = Returned("resolve_accident", IF r.result THEN "True" ELSE "False")
    /\ UNCHANGED <<world, registry, blocked_roads, accident_counter, simulation_step,
                   is_running, total_spawned, last_update_time, clock, commands>>

NextFloat ==
    \/ FloatCreateAccident
    \/ FloatResolveAccident

SpecFloat == FloatInit /\ [][NextFloat]_vars

(***************************************************************************)
(* Spawning alone, on the detour graph, on a graph without nodes and on a  *)
(* graph of one node, with arguments given or left out.                    *)
(***************************************************************************)
AnyRequests ==
    {<<None, None>>, <<"A", None>>, <<"D", None>>, <<"D", "A">>, <<"A", "D">>, <<"A", "A">>}

SpawnInit ==
    \E G \in SpawnGraphs : \E hs \in HotspotChoices(G) : Construct(G, hs)

\* spawn_vehicle with any arguments that name nodes of the graph.
SpawnAny ==
    SpawnVehicleWith({"car", "bicycle"},
                     {r \in AnyRequests : /\ r[1] \in NodesOf(graph) \cup {None}
                                          /\ r[2] \in NodesOf(graph) \cup {None}})
    /\ UNCHANGED runner

NextSpawn ==
    \/ SpawnAny
    \/ ResetSimulation

SpecSpawn == SpawnInit /\ [][NextSpawn]_vars

(***************************************************************************)
(* Two kernels in one process.  Vehicle._id_counter is an attribute of the *)
(* class Vehicle, so id_counter is the one counter both kernels draw from; *)
(* of the second kernel the model keeps the ids in its registry.           *)
(***************************************************************************)
\* spawn_vehicle on the second kernel, a path being found.
PeerSpawn ==
    /\ id_counter < MaxVehicles
    /\ id_counter' = id_counter + 1
    /\ \E type \in {"car", "bicycle"} :
          peer_vehicles' = peer_vehicles \cup {<<type, id_counter + 1>>}
    /\ UNCHANGED <<graph, edge_lengths, congestion_points, start_time, traffic_multipliers,
                   blocked_roads, accidents, accident_counter, vehicles, active_vehicles,
                   edge_occupancy, simulation_step, is_running, total_spawned,
                   last_update_time, clock, commands, runner, ret>>

\* reset_simulation on the second kernel: its VehicleManager.reset().
PeerReset ==
    /\ peer_vehicles' = {}
    /\ id_counter' = 0
    /\ UNCHANGED <<graph, edge_lengths, congestion_points, start_time, traffic_multipliers,
                   blocked_roads, accidents, accident_counter, vehicles, active_vehicles,
                   edge_occupancy, simulation_step, is_running, total_spawned,
                   last_update_time, clock, commands, runner, ret>>

NextPeers ==
    \/ SpawnVehicle
    \/ ResetSimulation
    \/ PeerSpawn
    \/ PeerReset

SpecPeers == Init /\ [][NextPeers]_vars

(***************************************************************************)
(* run_continuous_simulation on one thread and stop_simulation on another. *)
(* The runner takes one step for each statement of the loop; a call it     *)
(* makes (spawn_random_vehicles, simulation_tick, clear_arrived_vehicles)  *)
(* is one step.  stop_called records that stop_simulation has been called  *)
(* since the run was invoked.                                              *)
(***************************************************************************)
SpawnRates == {0, 1}
RunnerRest ==
    <<site, traffic_multipliers, blocked_roads, accidents, accident_counter, registry,
      simulation_step, total_spawned, last_update_time, clock, commands, ret>>

\* The thread enters run_continuous_simulation(duration_steps, spawn_rate).
RunInvoke ==
    /\ runner.pc = "idle"
    /\ \E n \in 1..MaxDuration, rate \in SpawnRates :
          runner' = [runner EXCEPT !.pc = "start", !.duration_steps = n, !.spawn_rate = rate]
    /\ UNCHANGED <<RunnerRest, is_running>>

\* self.is_running = True, and the loop variable's first value.
RunStart ==
    /\ runner.pc = "start"
    /\ is_running' = TRUE
    /\ runner' = [runner EXCEPT !.pc = "top", !.step = 0]
    /\ UNCHANGED RunnerRest

\* The head of the loop: the range is exhausted, or the flag is down
\* (break), or the body begins.
RunLoopTop ==
    /\ runner.pc = "top"
    /\ runner' = [runner EXCEPT !.pc =
                      IF runner.step >= runner.duration_steps \/ ~is_running THEN "exit"
                      ELSE IF runner.step % 3 = 0 THEN "spawn"
                      ELSE "tick"]
    /\ UNCHANGED <<RunnerRest, is_running>>

\* spawn_random_vehicles(spawn_rate) with the default distribution.
RunnerSpawn ==
    /\ runner.pc = "spawn"
    /\ runner' = [runner EXCEPT !.pc = "tick"]
    /\ IF runner.spawn_rate = 0
       THEN UNCHANGED <<RunnerRest, is_running>>
       ELSE SpawnVehicleWith(VehicleTypes, {<<None, None>>})

\* simulation_tick(); an exception it raises ends the thread.
RunnerTick ==
    /\ runner.pc = "tick"
    /\ SimulationTickWith({2}, MaxDuration, {{}}, {})
    /\ runner' = IF ret'.result = "KeyError" THEN [runner EXCEPT !.pc = "raised"]
                 ELSE IF runner.step % 10 = 0 THEN [runner EXCEPT !.pc = "clear"]
                 ELSE [runner EXCEPT !.pc = "top", !.step = @ + 1]

\* vehicle_manager.clear_arrived_vehicles(), and the next value of the loop
\* variable.
RunnerClear ==
    /\ runner.pc = "clear"
    /\ LET r == clear_arrived_vehicles(vehicles, active_vehicles, edge_occupancy)
       IN  /\ vehicles' = r.vehicles
           /\ active_vehicles' = r.active_vehicles
           /\ edge_occupancy' = r.edge_occupancy
    /\ runner' = [runner EXCEPT !.pc = "top", !.step = @ + 1]
    /\ UNCHANGED <<site, traffic_multipliers, blocked_roads, accidents, accident_counter,
                   id_counter, simulation_step, is_running, total_spawned,
                   last_update_time, clock, commands, ret>>

\* self.is_running = False after the loop, and the return.
RunExit ==
    /\ runner.pc = "exit"
    /\ is_running' = FALSE
    /\ runner' = [runner EXCEPT !.pc = "returned"]
    /\ UNCHANGED RunnerRest

\* stop_simulation() on another thread, once the run has been invoked.
StopSimulation ==
    /\ runner.pc \notin {"idle", "returned", "raised"}
    /\ ~runner.stop_called
    /\ is_running' = FALSE
    /\ runner' = [runner EXCEPT !.stop_called = TRUE]
    /\ UNCHANGED RunnerRest

NextStop ==
    \/ RunInvoke
    \/ RunStart
    \/ RunLoopTop
    \/ RunnerSpawn
    \/ RunnerTick
    \/ RunnerClear
    \/ RunExit
    \/ StopSimulation

SpecStop == Init /\ [][NextStop]_vars

(***************************************************************************)
(* One car from A to D on the line graph, ticks 0.1 s apart, no accident   *)
(* and no block.  The steps keep coming (weak fairness) up to MaxLineStep. *)
(***************************************************************************)
LineInit == \E hs \in HotspotChoices(LineGraph) \cap HotspotDraws : Construct(LineGraph, hs)

LineSpawn ==
    /\ DOMAIN vehicles = {}
    /\ SpawnVehicleWith({"car"}, {<<"A", "D">>})
    /\ UNCHANGED runner

LineTick ==
    /\ DOMAIN vehicles # {}
    /\ SimulationTickWith({1}, MaxLineStep, {{}}, {})
    /\ UNCHANGED runner

NextLine ==
    \/ LineSpawn
    \/ LineTick

SpecLine == LineInit /\ [][NextLine]_vars /\ WF_vars(NextLine)

(***************************************************************************)
(* The hotspot drift.  The hotspot edge (A,B) starts on a multiplier of    *)
(* DriftStarts; a tick whose step is a multiple of 30 comes 0.2 s, 13 s or *)
(* 40 s after the one before, which puts the congestion factor at 0.1 or   *)
(* 0.2 (no drift) or between 0.31 and 1.0; an accident or a block arrives  *)
(* just before the first such tick.                                        *)
(***************************************************************************)
DriftStarts == {1000, 4000, 5000}
DriftEdge == <<"A", "B">>

DriftInit ==
    \E m \in DriftStarts :
        ConstructWith(DetourGraph, {DriftEdge},
                      [e \in EdgesOf(DetourGraph) |->
                          IF e = DriftEdge THEN m ELSE DEFAULT_TRAFFIC_MULTIPLIER])

DriftTick ==
    /\ SimulationTickWith(IF (simulation_step + 1) % 30 = 0 THEN {2, 130, 400} ELSE {2},
                          MaxDriftStep, {{}}, {})
    /\ UNCHANGED runner

DriftAccident ==
    /\ simulation_step = 29
    /\ CreateAccidentWith({DriftEdge, <<"B", "D">>})

DriftBlock ==
    /\ simulation_step = 29
    /\ BlockRoadWith({DriftEdge})

DriftResolve ==
    /\ simulation_step = 30
    /\ ResolveAccidentWith({1})

NextDrift ==
    \/ DriftTick
    \/ DriftAccident
    \/ DriftBlock
    \/ DriftResolve

SpecDrift == DriftInit /\ [][NextDrift]_vars

(***************************************************************************)
(* One vehicle from A to D on the line graph, ticks 0.1 s apart, with the  *)
(* edges (A,B) and (B,C) on a multiplier of CruiseStarts and (C,D) on 1.0: *)
(* the vehicle is slowed on the first two edges and let go on the third.   *)
(***************************************************************************)
CruiseStarts == {1000, 1046, 5000}

CruiseInit ==
    \E m \in CruiseStarts :
        \E hs \in HotspotChoices(LineGraph) \cap HotspotDraws :
            ConstructWith(LineGraph, hs,
                          [e \in EdgesOf(LineGraph) |->
                              IF e = <<"C", "D">> THEN DEFAULT_TRAFFIC_MULTIPLIER ELSE m])

CruiseSpawn ==
    /\ DOMAIN vehicles = {}
    /\ SpawnVehicleWith(VehicleTypes, {<<"A", "D">>})
    /\ UNCHANGED runner

CruiseTick ==
    /\ DOMAIN vehicles # {}
    /\ SimulationTickWith({1}, MaxCruiseStep, {{}}, {})
    /\ UNCHANGED runner

NextCruise ==
    \/ CruiseSpawn
    \/ CruiseTick

SpecCruise == CruiseInit /\ [][NextCruise]_vars

(***************************************************************************)
(* A car from B to D and one command more before the first tick: a severe  *)
(* accident on (B,D) or on the pair (A,D), which is no edge, a block of     *)
(* (B,D), or a second car.  The first tick comes 40 s after the commands,   *)
(* when every accident (they last 30 s) has expired, the later ones 0.2 s   *)
(* apart, and the ticks keep coming (weak fairness) up to MaxLiveStep.      *)
(***************************************************************************)
LiveSpawn ==
    /\ simulation_step = 0
    /\ SpawnVehicleWith({"car"}, {<<"B", "D">>})
    /\ UNCHANGED runner

LiveAccident ==
    /\ simulation_step = 0
    /\ DOMAIN vehicles # {}
    /\ CreateAccidentWith({<<"B", "D">>, <<"A", "D">>})
    /\ \A n \in DOMAIN accidents' : accidents'[n].severity = "severe"

LiveBlock ==
    /\ simulation_step = 0
    /\ DOMAIN vehicles # {}
    /\ BlockRoadWith({<<"B", "D">>})

LiveTick ==
    /\ DOMAIN vehicles # {}
    /\ SimulationTickWith(IF simulation_step = 0 THEN {400} ELSE {2},
                          MaxLiveStep, {{}}, {})
    /\ UNCHANGED runner

NextLive ==
    \/ LiveSpawn
    \/ LiveAccident
    \/ LiveBlock
    \/ LiveTick

SpecLive == Init /\ [][NextLive]_vars /\ WF_vars(LiveTick)

(***************************************************************************)
(* Properties.                                                             *)
(***************************************************************************)
\* The state is the one a tick that returned its summary has just left.
TickEnded == ret.op = "simulation_tick" /\ ret.result = "summary"

\* The step is a tick that returns its summary.
TickStep ==
    /\ simulation_step' = simulation_step + 1
    /\ ret'.op = "simulation_tick"
    /\ ret'.result = "summary"

\* Agent i is one the two passes of a tick work on.
OnRoad(i) ==
    /\ i \in active_vehicles
    /\ i \in DOMAIN vehicles
    /\ vehicles[i].status # "arrived"
    /\ vehicles[i].next_node # None

\* The edges of the remaining path path[path_index:].
TailEdges(v) ==
    {<<PyAt(v.path, k), PyAt(v.path, k + 1)>> : k \in v.path_index..(Len(v.path) - 2)}

PathEdges(p) == {<<p[k], p[k + 1]>> : k \in 1..(Len(p) - 1)}

\* The graph has a path from the agent's current node to its goal that avoids e.
DetourExists(v, e) ==
    \E p \in SimplePaths[graph][v.current_node][v.goal_node] : e \notin PathEdges(p)

\* The ids the occupancy map lists on the agent's edge, strictly ahead of it.
LeadersOf(i) ==
    LET v == vehicles[i]
        edge == <<v.current_node, v.next_node>>
        listed == IF edge \in DOMAIN edge_occupancy THEN Range(edge_occupancy[edge]) ELSE {}
    IN  {j \in listed \cap DOMAIN vehicles :
            j # i /\ vehicles[j].position_on_edge > v.position_on_edge}

\* The smallest gap in pixels (distance units) to a leader of agent i.
LeaderGap(i) ==
    LET v == vehicles[i]
        edge == <<v.current_node, v.next_node>>
        gap(j) == ((vehicles[j].position_on_edge - v.position_on_edge)
                      * EdgeLength(edge_lengths, edge)) \div EdgeEnd
        j == CHOOSE x \in LeadersOf(i) : \A y \in LeadersOf(i) : gap(x) <= gap(y)
    IN  gap(j)

\* C1: in every tick, the reroute is run for each agent on the road whose
\* look-ahead window (up to three path edges from path_index) holds a blocked
\* edge, also when its current edge is not blocked: when the router gives a
\* path other than the remaining tail, the tick leaves the agent on that
\* path with one more reroute counted (on the detour graph: a car on A,B,D,
\* still on (A,B), is on A,C,D with reroute_count 1 after the first tick
\* that follows block(B,D)).
C1_LookAheadReroute ==
    [][TickStep =>
        \A i \in DOMAIN vehicles :
            (OnRoad(i) /\ should_reroute(vehicles[i], blocked_roads, {})) =>
                LET r == reroute_vehicle(graph, traffic_multipliers', vehicles[i])
                IN  r # vehicles[i] =>
                        /\ vehicles'[i].path = r.path
                        /\ vehicles'[i].reroute_count = vehicles[i].reroute_count + 1]_vars

\* C2: at the end of every tick, for every blocked edge e and every active
\* agent that is not arrived: if the graph has a path from the agent's
\* current node to its goal that avoids e, then e is not an edge of the
\* agent's remaining path.
C2_BlockedEdgeNotInTail ==
    TickEnded =>
        \A e \in blocked_roads :
            \A i \in active_vehicles \cap DOMAIN vehicles :
                (vehicles[i].status # "arrived" /\ DetourExists(vehicles[i], e)) =>
                    e \notin TailEdges(vehicles[i])

\* C3: in a tick, an agent on the road whose current edge is blocked and
\* whose reroute adopts no new path (no path, or the remaining tail again)
\* is left with target_speed 0 and, unless the second pass took it off the
\* edge, with status stuck.
C3_BlockedWithoutRerouteIsStuck ==
    [][TickStep =>
        \A i \in DOMAIN vehicles :
            (/\ OnRoad(i)
             /\ <<vehicles[i].current_node, vehicles[i].next_node>> \in blocked_roads
             /\ reroute_vehicle(graph, traffic_multipliers', vehicles[i]) = vehicles[i]) =>
                /\ vehicles'[i].target_speed = 0
                /\ \/ vehicles'[i].status = "stuck"
                   \/ vehicles'[i].current_node # vehicles[i].current_node]_vars

\* C4: in a tick, an agent on the road on a non-blocked edge, with another
\* agent of the edge's occupancy list strictly ahead of it, gets the target
\* speed of slow_down_for_vehicle_ahead for the smallest gap, and its status
\* unless the second pass took it off the edge (a follower less than 30 px
\* behind: target_speed 0 and status stuck).
C4_LeaderSlowsFollower ==
    [][TickStep =>
        \A i \in DOMAIN vehicles :
            (/\ OnRoad(i)
             /\ <<vehicles[i].current_node, vehicles[i].next_node>> \notin blocked_roads
             /\ LeadersOf(i) # {}) =>
                LET slowed == slow_down_for_vehicle_ahead(vehicles[i], LeaderGap(i))
                IN  /\ vehicles'[i].target_speed = slowed.target_speed
                    /\ \/ vehicles'[i].status = slowed.status
                       \/ vehicles'[i].current_node # vehicles[i].current_node]_vars

\* C5: in every reachable state, every edge of the block set has the
\* multiplier 100.0 exactly.
C5_BlockedEdgeMultiplier ==
    \A e \in blocked_roads :
        e \in DOMAIN traffic_multipliers /\ traffic_multipliers[e] = BLOCKED_MULTIPLIER

\* C6: right after reset_simulation the id counter and the step counter are
\* 0, the registry, the active set and the occupancy map are empty, the
\* accident book and the block set are empty, and every multiplier is 1.0.
C6_ResetClearsEverything ==
    ret.op = "reset_simulation" =>
        /\ id_counter = 0
        /\ simulation_step = 0
        /\ vehicles = <<>>
        /\ active_vehicles = {}
        /\ edge_occupancy = <<>>
        /\ accidents = <<>>
        /\ blocked_roads = {}
        /\ \A e \in DOMAIN traffic_multipliers :
              traffic_multipliers[e] = DEFAULT_TRAFFIC_MULTIPLIER

\* C7: no command fails: create_accident returns an accident or null,
\* whatever its node arguments, and every tick returns its summary.
C7_TickNeverFails ==
    /\ ret.op = "create_accident" => ret.result \in {"accident", "null"}
    /\ ret.op = "simulation_tick" => ret.result = "summary"

\* C8: at the end of every tick the active set is exactly the set of the
\* ids of the registered agents whose status is not arrived.
C8_ActiveSetIsNotArrived ==
    TickEnded =>
        active_vehicles = {i \in DOMAIN vehicles : vehicles[i].status # "arrived"}

\* C9: in every reachable state, for every registered agent, status is
\* arrived exactly when path_index = len(path) - 1; an arrived agent has no
\* next node and an agent that is not arrived has one.
C9_ArrivedIffAtLastNode ==
    \A i \in DOMAIN vehicles :
        LET v == vehicles[i]
        IN  /\ (v.status = "arrived") <=> (v.path_index = Len(v.path) - 1)
            /\ v.status = "arrived" => v.next_node = None
            /\ v.status # "arrived" => v.next_node # None

\* C10: for every agent, at the end of every tick (and in every other
\* reachable state), 0 <= position_on_edge <= 1, 0 <= current_speed <=
\* its kind's maximum speed and 0 <= target_speed <= that maximum.
C10_PositionAndSpeedBounds ==
    \A i \in DOMAIN vehicles :
        LET v == vehicles[i]
        IN  /\ 0 <= v.position_on_edge /\ v.position_on_edge <= EdgeEnd
            /\ 0 <= v.current_speed /\ v.current_speed <= SPEED_MULTIPLIERS[v.type]
            /\ 0 <= v.target_speed /\ v.target_speed <= SPEED_MULTIPLIERS[v.type]

\* A tick has ended with an agent at the end of its edge moving at its
\* kind's maximum speed, and with another agent between the bounds, slowed
\* down or rerouted.
C10_Witness ==
    /\ TickEnded
    /\ \E i \in DOMAIN vehicles :
          /\ vehicles[i].position_on_edge = EdgeEnd
          /\ vehicles[i].current_speed = SPEED_MULTIPLIERS[vehicles[i].type]

\* The number of times id i occurs in the occupancy list of edge e.
Occurrences(i, e) ==
    Cardinality({k \in 1..Len(edge_occupancy[e]) : edge_occupancy[e][k] = i})

\* C11: at the end of every tick, every active agent with a next node is
\* listed exactly once on its edge (current, next) and on no other edge, and
\* no list holds the id of an arrived, removed or next-less agent.
C11_OccupancyMatchesAgents ==
    TickEnded =>
        /\ \A i \in active_vehicles \cap DOMAIN vehicles :
              (vehicles[i].status # "arrived" /\ vehicles[i].next_node # None) =>
                  LET edge == <<vehicles[i].current_node, vehicles[i].next_node>>
                  IN  /\ edge \in DOMAIN edge_occupancy
                      /\ Occurrences(i, edge) = 1
                      /\ \A e \in (DOMAIN edge_occupancy) \ {edge} : Occurrences(i, e) = 0
        /\ \A e \in DOMAIN edge_occupancy :
              \A k \in 1..Len(edge_occupancy[e]) :
                  LET i == edge_occupancy[e][k]
                  IN  /\ i \in DOMAIN vehicles
                      /\ vehicles[i].status # "arrived"
                      /\ vehicles[i].next_node # None

\* A tick has ended with one agent arrived (and so in no list) and another
\* agent listed on its edge.
C11_Witness ==
    /\ TickEnded
    /\ \E i \in DOMAIN vehicles : vehicles[i].status = "arrived"
    /\ \E e \in DOMAIN edge_occupancy : Len(edge_occupancy[e]) >= 1

\* C12 as amended: an accident of severity s on an edge with multiplier m
\* makes the multiplier m * factor(s) rounded to the nearest float; resolving
\* it, with nothing else touching the edge, removes it from the book and
\* leaves m again for minor and moderate (x2 and x4 are exact) and for
\* m = 1.0, and m or a neighbouring float (one unit in the last place) for
\* severe.  (accident_counter = 1: the accident is the only one the edge has
\* had.)
C12_CreateResolveRestoresWithinUlp ==
    /\ (ret.op = "create_accident" /\ accident_counter = 1) =>
          \A n \in DOMAIN accidents :
              LET factor == severity_multipliers[accidents[n].severity]
                  m == traffic_multipliers[FloatControl]
              IN  /\ traffic_multipliers[FloatEdge] = FloatMul(m, factor)
                  /\ factor \in {2, 4} => FloatDiv(traffic_multipliers[FloatEdge], factor) = m
    /\ (ret.op = "resolve_accident" /\ accident_counter = 1) =>
          /\ ret.result = "True"
          /\ accidents = <<>>
          /\ FloatNear(traffic_multipliers[FloatEdge], traffic_multipliers[FloatControl])
          /\ traffic_multipliers[FloatControl] = FloatOne =>
                traffic_multipliers[FloatEdge] = FloatOne

\* C12 as stated: the multiplier is m * factor(s) after the accident and
\* exactly m again after its resolution, for every m and every severity.
C12_CreateResolveRestoresExactly ==
    /\ (ret.op = "create_accident" /\ accident_counter = 1) =>
          \A n \in DOMAIN accidents :
              traffic_multipliers[FloatEdge] =
                  FloatMul(traffic_multipliers[FloatControl],
                           severity_multipliers[accidents[n].severity])
    /\ (ret.op = "resolve_accident" /\ accident_counter = 1) =>
          /\ accidents = <<>>
          /\ traffic_multipliers[FloatEdge] = traffic_multipliers[FloatControl]

\* An accident was created and resolved on an edge whose multiplier was not
\* 1.0, and the edge is back on the multiplier it had.
C12_Witness ==
    /\ ret.op = "resolve_accident"
    /\ accidents = <<>>
    /\ traffic_multipliers[FloatControl] # FloatOne
    /\ traffic_multipliers[FloatEdge] = traffic_multipliers[FloatControl]

\* The tick's delta_time, seen from a step of the tick.
TickDelta == Min(clock' - last_update_time, MAX_DELTA_TIME)

\* The tick of this step runs the reroute of agent i: the agent is on the
\* road and its current edge is blocked (lines 427-430).
RerouteRuns(i) ==
    /\ TickStep
    /\ OnRoad(i)
    /\ <<vehicles[i].current_node, vehicles[i].next_node>> \in blocked_roads

\* What the router gives agent i in the tick of this step.
RouterResult(i) ==
    a_star(graph, traffic_multipliers', vehicles[i].current_node,
           vehicles[i].goal_node, vehicles[i].type).path

\* The reroute of agent i in the tick of this step adopts a new path.
RerouteAdopts(i) ==
    /\ RerouteRuns(i)
    /\ RouterResult(i) # <<>>
    /\ RouterResult(i) # PyTail(vehicles[i].path, vehicles[i].path_index)

\* The agent as the claims have a reroute leave it: on the new path, at
\* its first node, with one more reroute counted, the target speed of its
\* kind and status moving.
Adopted(v, new_path) ==
    [v EXCEPT !.path = new_path, !.path_index = 0,
              !.next_node = IF Len(new_path) > 1 THEN PyAt(new_path, 1) ELSE None,
              !.reroute_count = v.reroute_count + 1,
              !.target_speed = SPEED_MULTIPLIERS[v.type],
              !.status = "moving"]

\* C13: when the reroute of a tick adopts a new path, the agent starts the
\* new first edge at position_on_edge = 0: the tick leaves it where its
\* second pass takes it from 0.
C13_RerouteResetsPosition ==
    [][\A i \in DOMAIN vehicles :
          RerouteAdopts(i) =>
              vehicles'[i].position_on_edge =
                  SecondPass([Adopted(vehicles[i], RouterResult(i)) EXCEPT
                                 !.position_on_edge = 0],
                             TickDelta, edge_lengths).v.position_on_edge]_vars

\* C14: when the router gives a non-empty path other than the remaining
\* tail, the reroute leaves the agent on the new path with path_index 0,
\* next = path[1], reroute_count one higher, target_speed its kind's
\* maximum and status moving, never rerouting; the second pass of the tick
\* then moves that agent.
C14_RerouteAdoptsNewPath ==
    [][\A i \in DOMAIN vehicles :
          RerouteAdopts(i) =>
              /\ vehicles'[i] = SecondPass(Adopted(vehicles[i], RouterResult(i)),
                                           TickDelta, edge_lengths).v
              /\ vehicles'[i].reroute_count = vehicles[i].reroute_count + 1
              /\ vehicles'[i].status # "rerouting"]_vars

\* A tick has ended with an agent that was rerouted while it was moving
\* along its edge: it is on a new path, moving, with one reroute counted.
C14_Witness ==
    /\ TickEnded
    /\ \E i \in DOMAIN vehicles :
          /\ vehicles[i].reroute_count = 1
          /\ vehicles[i].path = <<"A", "C", "D">>
          /\ vehicles[i].status = "moving"
          /\ vehicles[i].current_speed > ACCELERATION * MAX_DELTA_TIME

\* C15: a reroute whose router result is empty or the remaining tail again
\* changes nothing: the tick leaves the agent as its second pass alone
\* leaves it, with path, path_index, next node, reroute_count and
\* target_speed as they were.
C15_RerouteSameTailIsNoOp ==
    [][\A i \in DOMAIN vehicles :
          (RerouteRuns(i) /\ ~RerouteAdopts(i)) =>
              /\ vehicles'[i] = SecondPass(vehicles[i], TickDelta, edge_lengths).v
              /\ vehicles'[i].path = vehicles[i].path
              /\ vehicles'[i].reroute_count = vehicles[i].reroute_count
              /\ vehicles'[i].target_speed = vehicles[i].target_speed]_vars

\* A tick has ended with an agent on a blocked edge, the only route to its
\* goal, that no reroute has changed.
C15_Witness ==
    /\ TickEnded
    /\ \E i \in DOMAIN vehicles :
          /\ <<vehicles[i].current_node, vehicles[i].next_node>> \in blocked_roads
          /\ vehicles[i].path = <<"B", "D">>
          /\ vehicles[i].reroute_count = 0
          /\ vehicles[i].position_on_edge > 0

\* C16: an agent's reroute_count never goes down, and it goes up only in a
\* tick that replaces the agent's path by a different one.
C16_RerouteCountMonotonic ==
    [][\A i \in (DOMAIN vehicles) \cap (DOMAIN vehicles') :
          /\ vehicles'[i].reroute_count >= vehicles[i].reroute_count
          /\ vehicles'[i].reroute_count > vehicles[i].reroute_count =>
                /\ ret'.op = "simulation_tick"
                /\ vehicles'[i].path # vehicles[i].path]_vars

\* Two ticks have run and an agent has one reroute counted.
C16_Witness ==
    /\ TickEnded
    /\ simulation_step = 2
    /\ \E i \in DOMAIN vehicles : vehicles[i].reroute_count = 1

\* The step is a call of spawn_vehicle.
SpawnStep == commands' = commands + 1 /\ ret'.op = "spawn_vehicle"

\* C17: spawn_vehicle returns a vehicle exactly when the graph has nodes, a
\* goal other than the start can be drawn when none is given, and the
\* router gives a non-empty path; the vehicle is then registered, active,
\* on that path, and counted; otherwise the call returns null and leaves
\* the registry, the active set and total_spawned as they were.
\* total_spawned goes up by one with each vehicle returned, back to 0 with a
\* reset, and changes in no other step.
C17_SpawnReturnsAgentIffRouted ==
    [][/\ SpawnStep =>
            /\ ret'.result \in {"vehicle", "null"}
            /\ ret'.result = "null" => UNCHANGED <<vehicles, active_vehicles, total_spawned>>
            /\ ret'.result = "vehicle" =>
                  /\ total_spawned' = total_spawned + 1
                  /\ \E i \in (DOMAIN vehicles') \ DOMAIN vehicles :
                        /\ DOMAIN vehicles' = (DOMAIN vehicles) \cup {i}
                        /\ active_vehicles' = active_vehicles \cup {i}
                        /\ vehicles'[i].path # <<>>
                        /\ vehicles'[i].path =
                               a_star(graph, traffic_multipliers, vehicles'[i].start_node,
                                      vehicles'[i].goal_node, vehicles'[i].type).path
            /\ Len(graph.nodes) = 0 => ret'.result = "null"
            /\ \A type \in VehicleTypes, start \in NodesOf(graph) :
                  /\ (/\ SpawnVehicleWith({type}, {<<start, None>>})
                      /\ NodesOf(graph) \ {start} = {}) => ret'.result = "null"
                  /\ \A goal \in NodesOf(graph) :
                        SpawnVehicleWith({type}, {<<start, goal>>}) =>
                            (ret'.result = "vehicle" <=>
                                a_star(graph, traffic_multipliers, start, goal,
                                       type).path # <<>>)
       /\ total_spawned' =
              IF SpawnStep /\ ret'.result = "vehicle" THEN total_spawned + 1
              ELSE IF ret'.op = "reset_simulation" /\ commands' = commands + 1 THEN 0
              ELSE total_spawned]_vars

\* A spawn has just failed for want of a path, after one that succeeded.
C17_Witness ==
    /\ ret.op = "spawn_vehicle"
    /\ ret.result = "null"
    /\ Len(graph.nodes) > 1
    /\ total_spawned = 1
    /\ id_counter = 2

\* C18: unblock_road on an edge that is not blocked, resolve_accident on an
\* id that is not in the book and block_road on an edge that has no
\* multiplier each return False and leave the multipliers, the blocked
\* roads and the accidents as they were.
C18_RefusedCommandsChangeNothing ==
    [][/\ \A e \in NodesOf(graph) \X NodesOf(graph) :
             /\ (UnblockRoadWith({e}) /\ e \notin blocked_roads) =>
                    /\ ret'.result = "False"
                    /\ UNCHANGED <<traffic_multipliers, blocked_roads, accidents>>
             /\ (BlockRoadWith({e}) /\ e \notin DOMAIN traffic_multipliers) =>
                    /\ ret'.result = "False"
                    /\ UNCHANGED <<traffic_multipliers, blocked_roads, accidents>>
       /\ \A n \in 1..MaxAccidents :
             (ResolveAccidentWith({n}) /\ n \notin DOMAIN accidents) =>
                 /\ ret'.result = "False"
                 /\ UNCHANGED <<traffic_multipliers, blocked_roads, accidents>>]_vars

\* unblock_road has just been refused while an accident weighs on a road.
C18_Witness ==
    /\ ret.op = "unblock_road"
    /\ ret.result = "False"
    /\ DOMAIN accidents # {}
    /\ \E e \in DOMAIN traffic_multipliers : traffic_multipliers[e] > DEFAULT_TRAFFIC_MULTIPLIER

\* A spawn that returns a vehicle registers it under an id that was not in
\* the registry.
SpawnAddsOne ==
    (SpawnStep /\ ret'.result = "vehicle") =>
        /\ Cardinality(DOMAIN vehicles') = Cardinality(DOMAIN vehicles) + 1
        /\ \A i \in DOMAIN vehicles : vehicles'[i] = vehicles[i]

\* C19: the id counter belongs to one registry: a spawn or a reset on the
\* second kernel leaves the counter of this kernel as it was, and a spawn
\* that returns a vehicle never overwrites a vehicle of the registry.
C19_IdCounterScopedToRegistry ==
    [][/\ (PeerSpawn \/ PeerReset) => id_counter' = id_counter
       /\ SpawnAddsOne]_vars

\* C20: once stop_simulation has been called after the run was invoked, the
\* runner begins no iteration at the head of its loop (it leaves the loop
\* there), and it returns with is_running false.
C20_StopEndsTheRun ==
    [][/\ (runner.stop_called /\ runner.pc = "top" /\ runner'.pc # "top") =>
              runner'.pc = "exit"
       /\ runner'.pc = "returned" => ~is_running']_vars

\* C21: on the line graph the car from A to D arrives in the end; its
\* current node goes from A to B, from B to C and from C to D and makes no
\* other change; its reroute_count is 0 when it has arrived.
C21_LineCarArrives ==
    /\ <>(\E i \in DOMAIN vehicles : vehicles[i].status = "arrived")
    /\ [][\A i \in DOMAIN vehicles :
              /\ i \notin DOMAIN vehicles' \/ vehicles'[i].current_node # vehicles[i].current_node
                    => /\ i \in DOMAIN vehicles'
                       /\ <<vehicles[i].current_node, vehicles'[i].current_node>>
                              \in {<<"A", "B">>, <<"B", "C">>, <<"C", "D">>}
              /\ (DOMAIN vehicles = {}) =>
                    \A j \in DOMAIN vehicles' : vehicles'[j].current_node = "A"]_vars
    /\ [](\A i \in DOMAIN vehicles :
              vehicles[i].status = "arrived" =>
                  /\ vehicles[i].current_node = "D"
                  /\ vehicles[i].reroute_count = 0)

\* The car has arrived at D, after some 200 ticks of 0.1 s.
C21_Witness ==
    /\ graph = LineGraph
    /\ \E i \in DOMAIN vehicles :
          /\ vehicles[i].status = "arrived"
          /\ vehicles[i].current_node = "D"
          /\ vehicles[i].path = <<"A", "B", "C", "D">>
    /\ simulation_step > 200

\* The congestion factor of the tick, seen from a step of the tick.
TickCongestionFactor ==
    Min(((clock' - start_time) * DEFAULT_TRAFFIC_MULTIPLIER) \div 600,
        DEFAULT_TRAFFIC_MULTIPLIER)

\* The tick is one that does the hotspot drift.
DriftApplies ==
    /\ simulation_step' % 30 = 0
    /\ TickCongestionFactor * 10 > 3 * DEFAULT_TRAFFIC_MULTIPLIER

\* C22: a tick with no accident in the book takes the multiplier of a
\* hotspot edge that lies in [1.0, 5.0] to a multiplier that is not smaller
\* and not above 5.0.
C22_DriftBoundedAndMonotone ==
    [][(TickStep /\ DOMAIN accidents = {} /\ DOMAIN accidents' = {}) =>
           \A e \in congestion_points \cap DOMAIN traffic_multipliers :
               (/\ traffic_multipliers[e] >= DEFAULT_TRAFFIC_MULTIPLIER
                /\ traffic_multipliers[e] <= HOTSPOT_CEILING) =>
                   /\ traffic_multipliers'[e] >= traffic_multipliers[e]
                   /\ traffic_multipliers'[e] <= HOTSPOT_CEILING]_vars

\* The second drift has taken a hotspot edge from below the ceiling up to it
\* or near it.
C22_Witness ==
    /\ TickEnded
    /\ simulation_step = 60
    /\ DOMAIN accidents = {}
    /\ blocked_roads = {}
    /\ traffic_multipliers[DriftEdge] > 4000
    /\ traffic_multipliers[DriftEdge] <= HOTSPOT_CEILING

\* C23: the hotspot ceiling leaves what an accident or a block has put on
\* an edge: a tick that resolves no accident and creates none does not
\* lower a multiplier that is above 5.0.
C23_CeilingSparesIncidentsAndBlocks ==
    [][(TickStep /\ accidents' = accidents) =>
           \A e \in DOMAIN traffic_multipliers :
               traffic_multipliers[e] > HOTSPOT_CEILING =>
                   traffic_multipliers'[e] >= traffic_multipliers[e]]_vars

\* C24: a tick that resolves no accident and creates none changes the
\* multiplier of an edge only when its step is a multiple of 30, the
\* congestion factor is above 0.3 and the edge is a hotspot edge.
C24_DriftOnlyOnHotspotsEvery30 ==
    [][(TickStep /\ accidents' = accidents) =>
           \A e \in DOMAIN traffic_multipliers :
               (e \notin congestion_points \/ ~DriftApplies) =>
                   traffic_multipliers'[e] = traffic_multipliers[e]]_vars

\* Tick 30 has drifted the hotspot edge and left the other edges on 1.0.
C24_Witness ==
    /\ TickEnded
    /\ simulation_step = 30
    /\ DOMAIN accidents = {}
    /\ blocked_roads = {}
    /\ traffic_multipliers[DriftEdge] \notin DriftStarts
    /\ \A e \in (DOMAIN traffic_multipliers) \ {DriftEdge} :
          traffic_multipliers[e] = DEFAULT_TRAFFIC_MULTIPLIER

\* C25: in a tick, for an agent on the road without a leader on an edge
\* that is not blocked, with d = ideal - target_speed (the ideal speed that
\* of the tick's multiplier of the edge).  At 10 px/s or more: target_speed
\* moves toward the ideal and not past it, by at most 0.1 px/s when
\* |d| > 2.0, by at most 0.2 px/s when 0.5 < |d| <= 2.0, and not at all when
\* |d| <= 0.5.  Below 10 px/s: target_speed becomes max_speed when it was
\* below 0.9 max_speed and stays as it was otherwise.
C25_DeadbandController ==
    [][TickStep =>
          \A i \in DOMAIN vehicles :
              LET v == vehicles[i]
                  edge == <<v.current_node, v.next_node>>
              IN  (/\ OnRoad(i)
                   /\ v.next_node # None
                   /\ edge \notin blocked_roads
                   /\ LeadersOf(i) = {}) =>
                      LET ideal == IdealSpeed(v, traffic_multipliers'[edge])
                          d == ideal - v.target_speed
                          old == v.target_speed
                          new == vehicles'[i].target_speed
                          max_speed == SPEED_MULTIPLIERS[v.type]
                      IN  IF v.current_speed >= 200
                          THEN /\ d >= 0 => (old <= new /\ new <= ideal)
                               /\ d <= 0 => (ideal <= new /\ new <= old)
                               /\ Abs(d) > 40 => Abs(new - old) <= 2
                               /\ (Abs(d) > 10 /\ Abs(d) <= 40) => Abs(new - old) <= 4
                               /\ Abs(d) <= 10 => new = old
                          ELSE /\ new >= old
                               /\ new = max_speed <=> (old * 10 < max_speed * 9 \/ old = max_speed)
                               /\ old * 10 >= max_speed * 9 => new = old]_vars

\* A vehicle at 10 px/s or more whose target speed the controller has taken
\* below its maximum, on the way to an ideal that is lower still.
C25_Witness ==
    /\ TickEnded
    /\ \E i \in DOMAIN vehicles :
          LET v == vehicles[i]
          IN  /\ v.next_node # None
              /\ v.current_speed >= 200
              /\ v.target_speed < SPEED_MULTIPLIERS[v.type]
              /\ v.target_speed >
                     IdealSpeed(v, traffic_multipliers[<<v.current_node, v.next_node>>])

\* C26: every registered agent with a non-empty path is at the node of its
\* path that path_index names, path_index lies within the path, and the
\* next node is the path's following node, or absent at the last node.
C26_CursorMatchesPath ==
    \A i \in DOMAIN vehicles :
        LET v == vehicles[i]
        IN  v.path # <<>> =>
                /\ 0 <= v.path_index
                /\ v.path_index <= Len(v.path) - 1
                /\ v.current_node = PyAt(v.path, v.path_index)
                /\ v.next_node = IF v.path_index < Len(v.path) - 1
                                 THEN PyAt(v.path, v.path_index + 1)
                                 ELSE None

\* A vehicle that was rerouted has gone on to the second node of its new
\* path.
C26_Witness ==
    \E i \in DOMAIN vehicles :
        /\ vehicles[i].reroute_count >= 1
        /\ vehicles[i].path_index >= 1
        /\ vehicles[i].current_node = "C"

\* The step is a call of simulation_tick, whatever its outcome.
TickCall == simulation_step' = simulation_step + 1 /\ ret'.op = "simulation_tick"

\* C27: a tick removes from the book every accident that is older than its
\* duration at the tick's time, dividing its factor out of its edge's
\* multiplier when no drift and no other accident touch the edge; it
\* removes no accident that is younger, and it removes no block.
C27_TickRemovesExpiredAccidents ==
    [][TickCall =>
          /\ blocked_roads' = blocked_roads
          /\ \A n \in DOMAIN accidents :
                LET a == accidents[n]
                    e == <<a.from_node, a.to_node>>
                IN  IF clock' - a.created_at > a.duration
                    THEN /\ n \notin DOMAIN accidents'
                         /\ (/\ e \notin congestion_points
                             /\ \A k \in (DOMAIN accidents) \cup DOMAIN accidents' :
                                   k = n) =>
                                traffic_multipliers'[e] =
                                    traffic_multipliers[e] \div severity_multipliers[a.severity]
                    ELSE /\ n \in DOMAIN accidents'
                         /\ accidents'[n] = a]_vars

\* C28: (no tick of the run does the hotspot drift)  every multiplier is at
\* least 1.0, and it is 1.0 on an edge that is not blocked and has no
\* accident in the book.
C28_MultipliersAtLeastOne ==
    \A e \in DOMAIN traffic_multipliers :
        /\ traffic_multipliers[e] >= DEFAULT_TRAFFIC_MULTIPLIER
        /\ (/\ e \notin blocked_roads
            /\ \A n \in DOMAIN accidents : <<accidents[n].from_node, accidents[n].to_node>> # e)
               => traffic_multipliers[e] = DEFAULT_TRAFFIC_MULTIPLIER

\* C29: a spawn that returns null leaves the id counter as it was, and the
\* vehicle a spawn returns has for the number of its id the count of the
\* vehicles spawned since the construction or the last reset.
C29_FailedSpawnConsumesNoId ==
    [][SpawnStep =>
          /\ ret'.result = "null" => id_counter' = id_counter
          /\ ret'.result = "vehicle" =>
                \A i \in (DOMAIN vehicles') \ DOMAIN vehicles : i[2] = total_spawned']_vars

\* C30: a tick leaves a vehicle that has arrived as it is, in every field,
\* and the arrived count of its summary is the number of the vehicles that
\* the tick has taken from another status to arrived.
C30_ArrivedIsAbsorbing ==
    [][TickCall =>
          /\ \A i \in DOMAIN vehicles :
                vehicles[i].status = "arrived" =>
                    /\ i \in DOMAIN vehicles'
                    /\ vehicles'[i] = vehicles[i]
          /\ ret'.result = "summary" =>
                ret'.arrived =
                    Cardinality({i \in DOMAIN vehicles :
                                    /\ vehicles[i].status # "arrived"
                                    /\ vehicles'[i].status = "arrived"})]_vars

\* A tick has run over a vehicle that had arrived before it, and has counted
\* no arrival.
C30_Witness ==
    /\ TickEnded
    /\ ret.arrived = 0
    /\ \E i \in DOMAIN vehicles :
          /\ vehicles[i].status = "arrived"
          /\ Len(vehicles[i].path) > 1
          /\ i \in active_vehicles

\* C31: every registered vehicle whose path has two nodes or more arrives in
\* the end, unless it is removed, whatever accidents and blocks there are and
\* whatever other vehicles are on its edges.
C31_EveryAgentArrives ==
    \A n \in 1..MaxVehicles :
        (/\ <<"car", n>> \in DOMAIN vehicles
         /\ Len(vehicles[<<"car", n>>].path) >= 2)
            ~> (\/ <<"car", n>> \notin DOMAIN vehicles
                \/ vehicles[<<"car", n>>].status = "arrived")
====
